---- MODULE Spec2Model ----
(***************************************************************************)
(* Real-time route monitoring of FleetFlow: the cron driver of server.js,  *)
(* RealTimeUpdateService (updateAllActiveRoutes, updateRouteData and its   *)
(* helpers), the TomTom traffic aggregation, the start/complete handlers   *)
(* of the route controller and the manual re-optimization path.            *)
(*                                                                         *)
(* Every await of the JavaScript code is a step boundary: an action is the *)
(* synchronous run of a callback from one await to the next.               *)
(***************************************************************************)
EXTENDS Integers, Sequences, FiniteSets, TLC

\* ------------------------------------------------------------------ bounds
MaxTicks == 2          \* cron ticks that fire in one behaviour
MaxRequests == 1       \* start/complete requests accepted in one behaviour
MaxOptimizerCalls == 1 \* optimizer invocations counted in one behaviour
MaxStops == 2          \* deliveries handed to one optimizeRoute call
MaxPathLen == 24       \* coordinates handed to one sampling call
MaxSampleCount == 10   \* largest maxPoints handed to one sampling call
MaxSpeed == 100        \* largest speed handed to calculateCongestionLevel
MaxWeatherCode == 120  \* largest code handed to mapWeatherCode
MaxFallbackStops == 3  \* deliveries handed to one fallbackOptimization call

Routes == {"r1", "r2"}
Cycles == 1..MaxTicks
Reqs == {"q1"}           \* request handlers in progress at a time

\* ------------------------------------------------- enumerations of the code
RouteStatus == {"draft", "planned", "in_progress", "completed", "cancelled", "delayed"}
CongestionEnum == {"free", "light", "moderate", "heavy", "severe"}
SevereConditions == {"storm", "hail", "heavy_rain"}

\* JavaScript Math.round on the rational n/d, d > 0: floor(n/d + 1/2).
Round(n, d) == (2 * n + d) \div (2 * d)

RECURSIVE SumOver(_, _)
SumOver(s, field) ==
  IF s = <<>> THEN 0
  ELSE (IF field = "currentSpeed" THEN Head(s).currentSpeed ELSE Head(s).freeFlowSpeed)
       + SumOver(Tail(s), field)

\* ------------------------------------------------------- tomtom.service.js
TrafficSamplePoints == 10

\* A failed per-point request is caught and mapped to null (line 180).
FailedReading == [ok |-> FALSE, currentSpeed |-> 0, freeFlowSpeed |-> 0]

\* calculateCongestionLevel with the thresholds taken as exclusive.
calculateCongestionLevel_Exclusive(curN, ffN) ==
  IF curN = 0 \/ ffN = 0 THEN "unknown"
  ELSE IF 10 * curN > 9 * ffN THEN "free"
  ELSE IF 10 * curN > 7 * ffN THEN "light"
  ELSE IF 10 * curN > 5 * ffN THEN "moderate"
  ELSE IF 10 * curN > 3 * ffN THEN "heavy"
  ELSE "severe"
\* calculateCongestionLevel(currentSpeed, freeFlowSpeed) on the rationals
\* curN/den and ffN/den: ratio = cur/ff compared with 0.9, 0.7, 0.5, 0.3.
calculateCongestionLevel(curN, ffN) ==
  IF curN = 0 \/ ffN = 0 THEN "unknown"
  ELSE IF 10 * curN >= 9 * ffN THEN "free"
  ELSE IF 10 * curN >= 7 * ffN THEN "light"
  ELSE IF 10 * curN >= 5 * ffN THEN "moderate"
  ELSE IF 10 * curN >= 3 * ffN THEN "heavy"
  ELSE "severe"

\* The stride loop of lines 291-294 without its break.
RECURSIVE SampleFrom_NoBreak(_, _, _, _, _)
SampleFrom_NoBreak(coordinates, i, step, maxPoints, sampled) ==
  IF i > Len(coordinates) THEN sampled
  ELSE SampleFrom_NoBreak(coordinates, i + step, step, maxPoints,
                          Append(sampled, coordinates[i]))

\* sampleRoutePoints(coordinates, maxPoints): the stride loop, by index.
RECURSIVE SampleFrom(_, _, _, _, _)
SampleFrom(coordinates, i, step, maxPoints, sampled) ==
  IF i > Len(coordinates) THEN sampled
  ELSE LET s2 == Append(sampled, coordinates[i])
       IN IF Len(s2) >= maxPoints THEN s2
          ELSE SampleFrom(coordinates, i + step, step, maxPoints, s2)

sampleRoutePoints(coordinates, maxPoints) ==
  IF Len(coordinates) <= maxPoints THEN coordinates
  ELSE SampleFrom(coordinates, 1, Len(coordinates) \div maxPoints, maxPoints, <<>>)

\* weather.service.js samplePoints(coordinates, maxPoints), lines 365-377:
\* the same loop in the weather provider.
RECURSIVE WeatherSampleFrom(_, _, _, _, _)
WeatherSampleFrom(coordinates, i, step, maxPoints, sampled) ==
  IF i > Len(coordinates) THEN sampled
  ELSE LET s2 == Append(sampled, coordinates[i])
       IN IF Len(s2) >= maxPoints THEN s2
          ELSE WeatherSampleFrom(coordinates, i + step, step, maxPoints, s2)

samplePoints(coordinates, maxPoints) ==
  IF Len(coordinates) <= maxPoints THEN coordinates
  ELSE WeatherSampleFrom(coordinates, 1, Len(coordinates) \div maxPoints, maxPoints, <<>>)

\* getTrafficAlongRoute, given the per-point results of getTrafficFlow.
getTrafficAlongRoute(readings) ==
  LET validData == SelectSeq(readings, LAMBDA d : d.ok)
      n == Len(validData)
      sumCur == SumOver(validData, "currentSpeed")
      sumFF == SumOver(validData, "freeFlowSpeed")
  IN IF n = 0
     THEN [averageSpeed |-> 0, averageFreeFlowSpeed |-> 0, congestionLevel |-> "unknown"]
     ELSE [averageSpeed |-> Round(sumCur, n),
           averageFreeFlowSpeed |-> Round(sumFF, n),
           congestionLevel |-> calculateCongestionLevel(sumCur, sumFF)]

\* ----------------------------------------------- realTimeUpdate.service.js
\* calculateCongestionPercentage(trafficFlow)
calculateCongestionPercentage(trafficFlow) ==
  IF trafficFlow.averageSpeed = 0 \/ trafficFlow.averageFreeFlowSpeed = 0 THEN 0
  ELSE LET pct == Round(100 * (trafficFlow.averageFreeFlowSpeed - trafficFlow.averageSpeed),
                        trafficFlow.averageFreeFlowSpeed)
       IN IF pct < 0 THEN 0 ELSE IF pct > 100 THEN 100 ELSE pct

\* calculateDelayMinutes(trafficFlow, originalDuration):
\* round(originalDuration * freeFlow / speed - originalDuration).
calculateDelayMinutes(trafficFlow, originalDuration) ==
  IF trafficFlow.averageSpeed = 0 \/ trafficFlow.averageFreeFlowSpeed = 0
     \/ originalDuration = 0
  THEN 0
  ELSE Round(originalDuration * (trafficFlow.averageFreeFlowSpeed - trafficFlow.averageSpeed),
             trafficFlow.averageSpeed)

\* The null of `let trafficData = null` / `let weatherData = null`.
NullTraffic ==
  [present |-> FALSE, currentSpeed |-> 0, freeFlowSpeed |-> 0, congestionLevel |-> "unknown",
   congestionPercentage |-> 0, delayMinutes |-> 0, incidents |-> {}]
NullWeather == [present |-> FALSE, condition |-> "clear", visibilityM |-> 0, alerts |-> {}]

\* The trafficData object built at lines 72-80.
BuildTrafficData(trafficFlow, incidents, originalDuration) ==
  [present |-> TRUE,
   currentSpeed |-> trafficFlow.averageSpeed,
   freeFlowSpeed |-> trafficFlow.averageFreeFlowSpeed,
   congestionLevel |-> trafficFlow.congestionLevel,
   congestionPercentage |-> calculateCongestionPercentage(trafficFlow),
   delayMinutes |-> calculateDelayMinutes(trafficFlow, originalDuration),
   incidents |-> incidents]

\* calculateUpdatedETA(route, trafficData); times are minutes of the day.
calculateUpdatedETA(originalETA, trafficData) ==
  IF ~trafficData.present \/ trafficData.delayMinutes = 0
  THEN [originalETA |-> originalETA, currentETA |-> originalETA, delayMinutes |-> 0]
  ELSE [originalETA |-> originalETA,
        currentETA |-> originalETA + trafficData.delayMinutes,
        delayMinutes |-> trafficData.delayMinutes]

\* shouldRecalculate returning at the first matching traffic or weather rule.
shouldRecalculate_FirstMatch(trafficData, weatherData, updatedETA) ==
  LET reasons ==
        IF trafficData.present /\ trafficData.congestionLevel = "severe"
        THEN <<"Severe traffic congestion detected">>
        ELSE IF trafficData.present /\ (\E i \in trafficData.incidents : i.type = "closure")
        THEN <<"Road closure on route">>
        ELSE IF trafficData.present /\ updatedETA.delayMinutes > 30
        THEN <<"Significant delay">>
        ELSE IF weatherData.present /\ weatherData.condition \in SevereConditions
        THEN <<"Severe weather">>
        ELSE IF weatherData.present /\ weatherData.visibilityM # 0
                /\ weatherData.visibilityM < 1000
        THEN <<"Very low visibility">>
        ELSE IF weatherData.present /\ (\E a \in weatherData.alerts : a = "high")
        THEN <<"Severe weather alerts">>
        ELSE <<>>
  IN [suggested |-> Len(reasons) > 0, reasons |-> reasons]

\* shouldRecalculate(trafficData, weatherData, updatedETA): the reasons in
\* the order they are pushed; visibility is kept in metres (1 km = 1000).
shouldRecalculate(trafficData, weatherData, updatedETA) ==
  LET r1 == IF trafficData.present /\ trafficData.congestionLevel = "severe"
            THEN <<"Severe traffic congestion detected">> ELSE <<>>
      r2 == IF trafficData.present /\ (\E i \in trafficData.incidents : i.type = "closure")
            THEN <<"Road closure on route">> ELSE <<>>
      r3 == IF trafficData.present /\ updatedETA.delayMinutes > 30
            THEN <<"Significant delay">> ELSE <<>>
      r4 == IF weatherData.present /\ weatherData.condition \in SevereConditions
            THEN <<"Severe weather">> ELSE <<>>
      r5 == IF weatherData.present /\ weatherData.visibilityM # 0
               /\ weatherData.visibilityM < 1000
            THEN <<"Very low visibility">> ELSE <<>>
      r6 == IF weatherData.present /\ (\E a \in weatherData.alerts : a = "high")
            THEN <<"Severe weather alerts">> ELSE <<>>
      reasons == r1 \o r2 \o r3 \o r4 \o r5 \o r6
  IN [suggested |-> Len(reasons) > 0, reasons |-> reasons]

\* The condition of line 122 and the condition of line 127.
DelayedThreshold_Inclusive(updatedETA, routeStatus) ==
  updatedETA.delayMinutes >= 30 /\ routeStatus # "delayed"
DelayedThreshold(updatedETA, routeStatus) ==
  updatedETA.delayMinutes > 30 /\ routeStatus # "delayed"
NotifyNeeded_VerdictOnly(recalculation, updatedETA) == recalculation.suggested
NotifyNeeded(recalculation, updatedETA) ==
  recalculation.suggested \/ updatedETA.delayMinutes > 15

\* RealTimeUpdate schema validation run by create(): trafficData.congestionLevel
\* must be one of the enum values when trafficData is given.
SchemaAccepts(trafficData) ==
  trafficData.present => trafficData.congestionLevel \in CongestionEnum

\* --------------------------------------------- server.js, cron.schedule
\* The catch of the cron callback (lines 137-139) logs the error; nothing
\* escapes the callback, so the host process stays up.
CronOnError_Unhandled(up) == FALSE
CronOnError(up) == up

\* updateAllActiveRoutes line 31: Promise.allSettled resolves when every
\* unit has settled, whatever its outcome.
AllSettled_FirstRejection(units, selected) ==
  \/ \A r \in selected : units[r].pc = "fulfilled"
  \/ \E r \in selected : units[r].pc = "rejected"
\* A wait that resolves only when every unit has fulfilled.
AllSettled_OnlyFulfilled(units, selected) ==
  \A r \in selected : units[r].pc = "fulfilled"
AllSettled(units, selected) ==
  \A r \in selected : units[r].pc \in {"fulfilled", "rejected"}

\* The pc a unit continues with after the catch of lines 81-83 swallowed a
\* failed traffic fetch: the weather fetch.
AfterTrafficFailure_Rethrow == "rejected"
AfterTrafficFailure == "weather"
\* ... and after the catch of lines 99-101 swallowed a failed weather fetch:
\* the snapshot is created.
AfterWeatherFailure == "create"

\* ------------------------------------------------------ weather.service.js
\* weatherConditionSchema.condition: the conditions a snapshot can store.
ConditionEnum ==
  {"clear", "cloudy", "rain", "heavy_rain", "snow", "fog", "storm", "hail", "wind"}

\* A weather_code of the Open-Meteo answer, or its absence.
NoCode == [present |-> FALSE, value |-> 0]
Code(n) == [present |-> TRUE, value |-> n]

\* mapWeatherCode with a final return outside the stored conditions.
mapWeatherCode_Unmapped(code) ==
  IF ~code.present THEN "clear"
  ELSE IF code.value = 0 THEN "clear"
  ELSE IF code.value <= 3 THEN "cloudy"
  ELSE IF code.value >= 45 /\ code.value <= 48 THEN "fog"
  ELSE IF code.value >= 51 /\ code.value <= 57 THEN "rain"
  ELSE IF code.value >= 61 /\ code.value <= 65
       THEN (IF code.value >= 65 THEN "heavy_rain" ELSE "rain")
  ELSE IF code.value >= 95 /\ code.value <= 99
       THEN (IF code.value >= 96 THEN "hail" ELSE "storm")
  ELSE "unknown"
\* mapWeatherCode(code), lines 294-311.
mapWeatherCode(code) ==
  IF ~code.present THEN "clear"
  ELSE IF code.value = 0 THEN "clear"
  ELSE IF code.value <= 3 THEN "cloudy"
  ELSE IF code.value >= 45 /\ code.value <= 48 THEN "fog"
  ELSE IF code.value >= 51 /\ code.value <= 55 THEN "rain"
  ELSE IF code.value >= 56 /\ code.value <= 57 THEN "rain"
  ELSE IF code.value >= 61 /\ code.value <= 65
       THEN (IF code.value >= 65 THEN "heavy_rain" ELSE "rain")
  ELSE IF code.value >= 66 /\ code.value <= 67 THEN "rain"
  ELSE IF code.value >= 71 /\ code.value <= 77 THEN "snow"
  ELSE IF code.value >= 80 /\ code.value <= 82
       THEN (IF code.value >= 82 THEN "heavy_rain" ELSE "rain")
  ELSE IF code.value >= 85 /\ code.value <= 86 THEN "snow"
  ELSE IF code.value >= 95 /\ code.value <= 99
       THEN (IF code.value >= 96 THEN "hail" ELSE "storm")
  ELSE "clear"

\* ------------------------------------------------------ aiRoute.service.js
\* The priority levels in the order of the loop at line 180.
PriorityLevels == <<"urgent", "high", "normal", "low">>

Abs(x) == IF x < 0 THEN -x ELSE x

\* calculateDistance(coords1, coords2) for [lon, lat] points on the equator,
\* where the haversine formula gives R * |lon2 - lon1| * pi / 180: the
\* distance in units of R * pi / 180 km.
calculateDistance(coords1, coords2) == Abs(coords2[1] - coords1[1])

\* The scan of lines 183-188 with <= at line 187: a later stop at the same
\* distance replaces the earlier one.
RECURSIVE NearestFrom_LastWins(_, _, _, _, _)
NearestFrom_LastWins(remaining, i, currentLocation, nearestIdx, nearestDist) ==
  IF i > Len(remaining) THEN nearestIdx
  ELSE LET dist == calculateDistance(currentLocation, remaining[i].coordinates)
       IN IF nearestDist < 0 \/ dist <= nearestDist
          THEN NearestFrom_LastWins(remaining, i + 1, currentLocation, i, dist)
          ELSE NearestFrom_LastWins(remaining, i + 1, currentLocation, nearestIdx,
                                    nearestDist)
\* lines 183-188: the index of the first stop of `remaining` at the least
\* distance from currentLocation (a later stop replaces it only if nearer).
RECURSIVE NearestFrom(_, _, _, _, _)
NearestFrom(remaining, i, currentLocation, nearestIdx, nearestDist) ==
  IF i > Len(remaining) THEN nearestIdx
  ELSE LET dist == calculateDistance(currentLocation, remaining[i].coordinates)
       IN IF nearestDist < 0 \/ dist < nearestDist
          THEN NearestFrom(remaining, i + 1, currentLocation, i, dist)
          ELSE NearestFrom(remaining, i + 1, currentLocation, nearestIdx, nearestDist)

RemoveAt(seq, i) == SubSeq(seq, 1, i - 1) \o SubSeq(seq, i + 1, Len(seq))

\* lines 182-192: the while loop over one priority group.
RECURSIVE VisitGroup(_, _, _)
VisitGroup(remaining, currentLocation, optimizedSequence) ==
  IF Len(remaining) = 0
  THEN [sequence |-> optimizedSequence, currentLocation |-> currentLocation]
  ELSE LET nearestIdx == NearestFrom(remaining, 1, currentLocation, 1, -1)
           nearest == remaining[nearestIdx]
       IN VisitGroup(RemoveAt(remaining, nearestIdx), nearest.coordinates,
                     Append(optimizedSequence, nearest.originalIndex))

\* lines 180-193: the groups are visited in the order of the levels.
RECURSIVE VisitLevels(_, _, _, _)
VisitLevels(levels, sortedDeliveries, currentLocation, optimizedSequence) ==
  IF Len(levels) = 0 THEN optimizedSequence
  ELSE LET group == SelectSeq(sortedDeliveries, LAMBDA d : d.priority = Head(levels))
           visited == VisitGroup(group, currentLocation, optimizedSequence)
       IN VisitLevels(Tail(levels), sortedDeliveries, visited.currentLocation,
                      visited.sequence)

\* lines 169-193 without the priority groups: one nearest-neighbour pass.
fallbackOptimization_NearestOnly(deliveries, startLocation) ==
  [success |-> TRUE,
   sequence |-> VisitGroup([i \in 1..Len(deliveries) |->
                              [priority |-> deliveries[i].priority,
                               coordinates |-> deliveries[i].coordinates,
                               originalIndex |-> i - 1]], startLocation, <<>>).sequence,
   warnings |-> <<"Using fallback optimization - AI service unavailable">>,
   aiModel |-> "fallback-nearest-neighbor", confidence |-> 6]
\* fallbackOptimization(deliveries, startLocation, ...): the sequence of
\* 0-based delivery indices and the fixed fields of the result; confidence is
\* in tenths.
fallbackOptimization(deliveries, startLocation) ==
  LET sortedDeliveries == [i \in 1..Len(deliveries) |->
                             [priority |-> deliveries[i].priority,
                              coordinates |-> deliveries[i].coordinates,
                              originalIndex |-> i - 1]]
  IN [success |-> TRUE,
      sequence |-> VisitLevels(PriorityLevels, sortedDeliveries, startLocation, <<>>),
      warnings |-> <<"Using fallback optimization - AI service unavailable">>,
      aiModel |-> "fallback-nearest-neighbor", confidence |-> 6]

\* calculateDistance line 232: the earth's radius in km.
EarthRadiusKm == 6371
\* The length of one degree of longitude on the equator, R * pi / 180, in
\* metres (111195).
MetresPerDegree == (EarthRadiusKm * 31416) \div 1800

\* lines 195-202: the length of the route start -> stops in sequence order
\* (-> end, when the end location has coordinates), in degrees.
RECURSIVE LegsFrom(_, _, _, _)
LegsFrom(deliveries, optimizedSequence, k, prevCoords) ==
  IF k > Len(optimizedSequence) THEN [totalDistance |-> 0, prevCoords |-> prevCoords]
  ELSE LET coords == deliveries[optimizedSequence[k] + 1].coordinates
           rest == LegsFrom(deliveries, optimizedSequence, k + 1, coords)
       IN [totalDistance |-> calculateDistance(prevCoords, coords) + rest.totalDistance,
           prevCoords |-> rest.prevCoords]

\* lines 195-202 and 216-220: totalDistance in tenths of a km, totalDuration
\* in minutes at 40 km/h, fuelEstimate in tenths of a litre at 0.1 l/km.
estimatedMetrics(deliveries, startLocation, endLocation, optimizedSequence) ==
  LET legs == LegsFrom(deliveries, optimizedSequence, 1, startLocation)
      degrees == legs.totalDistance +
                 (IF endLocation.defined
                  THEN calculateDistance(legs.prevCoords, endLocation.coordinates)
                  ELSE 0)
      metres == degrees * MetresPerDegree
  IN [totalDistance |-> Round(metres, 100),
      totalDuration |-> Round(metres * 60, 40 * 1000),
      fuelEstimate |-> Round(metres, 1000)]

\* lines 204-208: every stop of the sequence, annotated with its 1-based
\* position and its index in the input.
optimizedDeliveries_ZeroBased(deliveries, optimizedSequence) ==
  [seqNum \in 1..Len(optimizedSequence) |->
     [priority |-> deliveries[optimizedSequence[seqNum] + 1].priority,
      coordinates |-> deliveries[optimizedSequence[seqNum] + 1].coordinates,
      sequenceInRoute |-> seqNum - 1,
      originalIndex |-> optimizedSequence[seqNum]]]
optimizedDeliveries(deliveries, optimizedSequence) ==
  [seqNum \in 1..Len(optimizedSequence) |->
     [priority |-> deliveries[optimizedSequence[seqNum] + 1].priority,
      coordinates |-> deliveries[optimizedSequence[seqNum] + 1].coordinates,
      sequenceInRoute |-> seqNum,
      originalIndex |-> optimizedSequence[seqNum]]]

\* lines 169 and 181: the loop splices copies ([...deliveries],
\* [...priorityGroups[level]]), so the caller's array is what it was.
CallerArrayAfter_Spliced(deliveries) ==
  SelectSeq(deliveries, LAMBDA d : d.priority \notin
                           {PriorityLevels[k] : k \in DOMAIN PriorityLevels})
CallerArrayAfter(deliveries) == deliveries

\* What reaches the caller when the promise of optimizeRoute rejects.
Surfaced ==
  [success |-> FALSE, sequence |-> <<>>, warnings |-> <<>>, aiModel |-> "none",
   confidence |-> 0]

\* The catch of optimizeRoute, lines 73-77.
OnPrimaryFailure_Rethrow(deliveries, startLocation) == Surfaced
OnPrimaryFailure(deliveries, startLocation) == fallbackOptimization(deliveries, startLocation)

\* parseAIResponse lines 129-136: whether the content parses to an object
\* whose sequence is an array of integers idx with 0 <= idx < deliveries.length.
ParsesOk(aiResponse, deliveries) ==
  /\ aiResponse.kind = "json"
  /\ aiResponse.hasSequence
  /\ \A k \in DOMAIN aiResponse.sequence :
        aiResponse.sequence[k] >= 0 /\ aiResponse.sequence[k] < Len(deliveries)

\* calculateConfidence, in tenths: 0.7, +0.1 for time windows on every stop,
\* +0.1 for a reasoning longer than 20, +0.1 for a totalDistance.
calculateConfidence(aiResponse) ==
  LET confidence == 7 + (IF aiResponse.timeWindows THEN 1 ELSE 0)
                      + (IF aiResponse.reasoningLength > 20 THEN 1 ELSE 0)
                      + (IF aiResponse.totalDistance > 0 THEN 1 ELSE 0)
  IN IF confidence > 10 THEN 10 ELSE confidence

\* optimizeRoute lines 63-77 once axios.post has resolved with aiResponse.
optimizeRouteResult(aiResponse, deliveries, startLocation) ==
  IF ParsesOk(aiResponse, deliveries)
  THEN [success |-> TRUE, sequence |-> aiResponse.sequence, warnings |-> <<>>,
        aiModel |-> "gpt-4.1-nano", confidence |-> calculateConfidence(aiResponse)]
  ELSE OnPrimaryFailure(deliveries, startLocation)

\* ------------------------------------------------------------------ state
VARIABLES
  routePlans,      \* RoutePlan collection: route id -> document
  deliveries,      \* Delivery collection: route id -> statuses of its deliveries
  ledger,          \* RealTimeUpdate collection: route id -> snapshots, oldest first
  cycle,           \* cron callback invocations: tick number -> cycle state
  unit,            \* updateRouteData invocations: tick number -> route id -> locals
  req,             \* start/complete request handlers in progress
  ticks,           \* cron ticks fired so far
  requests,        \* start/complete requests accepted so far
  hostUp,          \* the Node process is running
  optimizerCalls,  \* AIRouteService.optimizeRoute invocations: route id -> count
  env,             \* what the providers may serve and which calls may fail
  call             \* a service function under direct call: arguments and result

vars == <<routePlans, deliveries, ledger, cycle, unit, req, ticks, requests, hostUp,
          optimizerCalls, env, call>>

IdleUnit ==
  [pc |-> "none", routeStatus |-> "draft", trafficData |-> NullTraffic,
   weatherData |-> NullWeather, update |-> 0, wroteDelayed |-> FALSE]
IdleCycle == [state |-> "idle", selected |-> {}, successful |-> 0, failed |-> 0, total |-> 0]
DoneCycle == [IdleCycle EXCEPT !.state = "done"]
\* remaining: whether the handler's loaded route has a delivery that is not
\* delivered; response: what the last handler of the slot answered.
IdleReq == [op |-> "none", route |-> "r1", pc |-> "idle", remaining |-> FALSE,
            response |-> "none"]
Responded(answer) == [IdleReq EXCEPT !.response = answer]

IdleCall == [pc |-> "idle"]

Reading(cur, ff) == [ok |-> TRUE, currentSpeed |-> cur, freeFlowSpeed |-> ff]
Incident(type, severity) == [type |-> type, severity |-> severity]
WeatherReading(cond, vis, al) ==
  [present |-> TRUE, condition |-> cond, visibilityM |-> vis, alerts |-> al]
\* A RoutePlan document: routeGeometry.coordinates when the geometry is set,
\* the waypoint locations of `route`, metrics.totalDuration and endTime in
\* minutes, and whether scheduledDate lies in the current day.
Doc(st, today, dur, coords) ==
  [status |-> st, scheduledToday |-> today, totalDuration |-> dur, endTime |-> 600,
   routeGeometry |-> [defined |-> TRUE, coordinates |-> coords], route |-> <<>>]
\* A document whose waypoints (`route`) carry the locations `stops`.
DocWithStops(st, today, dur, coords, stops) ==
  [Doc(st, today, dur, coords) EXCEPT !.route = stops]

\* Calls that can reject: provider requests and store operations.
Calls == {"flow", "incidents", "weather", "find", "create", "update", "save"}
MayFail(operation) == operation \in env.faults

\* `fired` ticks have passed before with no route to scan.
InitCommon(fired) ==
  /\ ledger = [r \in Routes |-> <<>>]
  /\ cycle = [c \in Cycles |-> IF c <= fired THEN DoneCycle ELSE IdleCycle]
  /\ unit = [c \in Cycles |-> [r \in Routes |-> IdleUnit]]
  /\ req = [q \in Reqs |-> IdleReq]
  /\ ticks = fired
  /\ requests = 0
  /\ hostUp = TRUE
  /\ optimizerCalls = [r \in Routes |-> 0]
  /\ deliveries = [r \in Routes |-> <<"assigned">>]
  /\ call = IdleCall

SlowReading == Reading(39, 60)
ClearWeather == WeatherReading("clear", 10000, {})

\* The driver: one route scheduled today, the other done and not today; store
\* operations may fail, the providers answer.
Init ==
  /\ InitCommon(0)
  /\ \E st \in {"draft", "planned", "in_progress"} :
       routePlans = [r \in Routes |->
          IF r = "r1" THEN Doc(st, TRUE, 60, << <<0, 0>> >>)
          ELSE Doc("completed", FALSE, 60, << <<1, 1>> >>)]
  /\ env = [traffic |-> {SlowReading}, incidents |-> {{}}, weather |-> {ClearWeather},
            faults |-> {"find", "create", "update", "save"}]

\* The fleet: both routes scheduled today, one tick left to fire.
InitFleet ==
  /\ InitCommon(MaxTicks - 1)
  /\ routePlans \in [Routes -> {Doc(st, TRUE, 60, << <<0, 0>> >>) :
                                  st \in {"planned", "in_progress"}}]
  /\ env = [traffic |-> {SlowReading}, incidents |-> {{}}, weather |-> {ClearWeather},
            faults |-> {"find", "create", "update", "save"}]

\* One unit under every provider answer: one route scheduled today, one tick
\* left to fire, every call may fail.
UnitSpeeds == {15, 39, 40, 47, 48, 80}
UnitIncidents == {{}, {Incident("closure", "minor")}, {Incident("accident", "severe")}}
UnitWeather ==
  {ClearWeather, WeatherReading("storm", 10000, {"high"}),
   WeatherReading("fog", 500, {"medium"}), WeatherReading("heavy_rain", 0, {})}
\* The geometry of a route: computed directions, or the empty array a route
\* has before directions are computed, with or without located waypoints.
UnitGeometries ==
  {[coordinates |-> << <<0, 0>> >>, route |-> << <<0, 0>> >>],
   [coordinates |-> <<>>, route |-> << <<0, 0>>, <<2, 2>> >>],
   [coordinates |-> <<>>, route |-> <<>>]}
InitUnit ==
  /\ InitCommon(MaxTicks - 1)
  /\ \E st \in {"planned", "in_progress"}, dur \in {0, 10, 60}, g \in UnitGeometries :
       routePlans = [r \in Routes |->
          IF r = "r1" THEN DocWithStops(st, TRUE, dur, g.coordinates, g.route)
          ELSE Doc("completed", TRUE, 60, << <<1, 1>> >>)]
  /\ env = [traffic |-> {Reading(c, 60) : c \in UnitSpeeds}, incidents |-> UnitIncidents,
            weather |-> UnitWeather, faults |-> Calls]

\* ---------------------------------------------------------- scan driver
\* cron fires: the callback starts updateAllActiveRoutes, which issues the
\* RoutePlan.find query (server.js 132-135, service 16-27).
TimerTick ==
  /\ hostUp
  /\ ticks < MaxTicks
  /\ ticks' = ticks + 1
  /\ cycle' = [cycle EXCEPT ![ticks + 1].state = "scanning"]
  /\ UNCHANGED <<routePlans, deliveries, ledger, unit, req, requests, hostUp,
                 optimizerCalls, env, call>>

\* lines 53-54: `routeGeometry?.coordinates || route?.map(...) || []`; an
\* array, empty or not, is truthy, so a geometry that is set is always taken.
RouteCoordinates(doc) ==
  IF doc.routeGeometry.defined THEN doc.routeGeometry.coordinates ELSE doc.route

\* The synchronous start of updateRouteData(route), up to its first await.
StartUnit(doc) ==
  IF Len(RouteCoordinates(doc)) = 0
  THEN [IdleUnit EXCEPT !.pc = "fulfilled"]
  ELSE [IdleUnit EXCEPT !.pc = "traffic", !.routeStatus = doc.status]

\* The filter of the query at lines 24-27.
ActiveRoutes_WithDelayed(docs) ==
  {r \in Routes : docs[r].status \in {"planned", "in_progress", "delayed"}
                   /\ docs[r].scheduledToday}
ActiveRoutes(docs) ==
  {r \in Routes : docs[r].status \in {"planned", "in_progress"} /\ docs[r].scheduledToday}

\* The query returns: every selected route's unit is started (line 32).
QueryReturn(c) ==
  /\ cycle[c].state = "scanning"
  /\ LET selected == ActiveRoutes(routePlans)
     IN /\ cycle' = [cycle EXCEPT ![c].state = "fanout", ![c].selected = selected,
                                   ![c].total = Cardinality(selected)]
        /\ unit' = [unit EXCEPT ![c] = [r \in Routes |->
                      IF r \in selected THEN StartUnit(routePlans[r]) ELSE IdleUnit]]
  /\ UNCHANGED <<routePlans, deliveries, ledger, req, ticks, requests, hostUp,
                 optimizerCalls, env, call>>

\* The query rejects: lines 41-44 log and rethrow, the cron callback catches.
QueryFail(c) ==
  /\ cycle[c].state = "scanning"
  /\ MayFail("find")
  /\ cycle' = [cycle EXCEPT ![c].state = "failed"]
  /\ hostUp' = CronOnError(hostUp)
  /\ UNCHANGED <<routePlans, deliveries, ledger, unit, req, ticks, requests,
                 optimizerCalls, env, call>>

\* lines 31-40: the settled results are counted and the cycle returns.
Aggregate(c) ==
  /\ cycle[c].state = "fanout"
  /\ AllSettled(unit[c], cycle[c].selected)
  /\ cycle' = [cycle EXCEPT
       ![c].state = "done",
       ![c].successful = Cardinality({r \in cycle[c].selected : unit[c][r].pc = "fulfilled"}),
       ![c].failed = Cardinality({r \in cycle[c].selected : unit[c][r].pc = "rejected"})]
  /\ UNCHANGED <<routePlans, deliveries, ledger, unit, req, ticks, requests, hostUp,
                 optimizerCalls, env, call>>

\* ------------------------------------------------ updateRouteData (unit)
Snapshot(c, trafficData, weatherData, recalculation, updatedETA) ==
  [cycle |-> c, trafficData |-> trafficData, weatherData |-> weatherData,
   recalculationSuggested |-> recalculation.suggested,
   recalculationReason |-> recalculation.reasons,
   updatedETA |-> updatedETA, notificationSent |-> FALSE]

\* The per-point results getTrafficFlow may give for the sampled points.
PointResults(coordinates) ==
  [1..Len(sampleRoutePoints(coordinates, TrafficSamplePoints)) ->
     env.traffic \cup (IF MayFail("flow") THEN {FailedReading} ELSE {})]

\* lines 66-83, then 86-91: Promise.all of flow and incidents resumes the
\* unit, which builds trafficData (or leaves it null when the fetch threw)
\* and only then issues the weather request.
TrafficReturn(c, r) ==
  /\ unit[c][r].pc = "traffic"
  /\ \/ \E readings \in PointResults(RouteCoordinates(routePlans[r])),
           incidents \in env.incidents :
          unit' = [unit EXCEPT ![c][r].pc = "weather",
                     ![c][r].trafficData =
                        BuildTrafficData(getTrafficAlongRoute(readings), incidents,
                                         routePlans[r].totalDuration)]
     \/ /\ MayFail("incidents")
        /\ unit' = [unit EXCEPT ![c][r].pc = AfterTrafficFailure]
  /\ UNCHANGED <<routePlans, deliveries, ledger, cycle, req, ticks, requests, hostUp,
                 optimizerCalls, env, call>>

\* lines 91-119: the weather request returns or throws (caught); the ETA and
\* the verdict are computed and RealTimeUpdate.create is issued.
WeatherReturn(c, r) ==
  /\ unit[c][r].pc = "weather"
  /\ \/ \E w \in env.weather :
          unit' = [unit EXCEPT ![c][r].pc = "create", ![c][r].weatherData = w]
     \/ /\ MayFail("weather")
        /\ unit' = [unit EXCEPT ![c][r].pc = AfterWeatherFailure]
  /\ UNCHANGED <<routePlans, deliveries, ledger, cycle, req, ticks, requests, hostUp,
                 optimizerCalls, env, call>>

\* Lines 67-70 and line 91: which of the unit's two fetches is awaited.
TrafficInFlight(u) == u.pc = "traffic"
WeatherInFlight(u) == u.pc = "weather"

\* What the unit computes at lines 104 and 107 from its two data slots.
UnitETA(u, r) == calculateUpdatedETA(routePlans[r].endTime, u.trafficData)
UnitVerdict(u, r) == shouldRecalculate(u.trafficData, u.weatherData, UnitETA(u, r))

\* The pc after a call of the tail (lines 121-131) has returned.
AfterCreate(updatedETA, recalculation, routeStatus) ==
  IF DelayedThreshold(updatedETA, routeStatus) THEN "statusUpdate"
  ELSE IF NotifyNeeded(recalculation, updatedETA) THEN "notify"
  ELSE "fulfilled"
AfterStatusUpdate(updatedETA, recalculation) ==
  IF NotifyNeeded(recalculation, updatedETA) THEN "notify" ELSE "fulfilled"

\* A settled unit: its locals are gone; wroteDelayed records whether it
\* wrote the route's status.
Settled(u, outcome) == [IdleUnit EXCEPT !.pc = outcome, !.wroteDelayed = u.wroteDelayed]

\* The unit after a call of the tail returned, continuing at pc; once the
\* snapshot exists the tail reads only `update`.
Continue(u, idx, pc) ==
  IF pc = "fulfilled" THEN Settled(u, "fulfilled")
  ELSE [u EXCEPT !.pc = pc, !.update = idx, !.trafficData = NullTraffic,
                 !.weatherData = NullWeather]

\* lines 110-119 return: the snapshot is in the ledger; lines 122 and 127
\* decide what is issued next.
CreateOk(c, r) ==
  /\ unit[c][r].pc = "create"
  /\ SchemaAccepts(unit[c][r].trafficData)
  /\ LET u == unit[c][r]
         eta == UnitETA(u, r)
         rec == UnitVerdict(u, r)
     IN /\ ledger' = [ledger EXCEPT ![r] =
                        Append(@, Snapshot(c, u.trafficData, u.weatherData, rec, eta))]
        /\ unit' = [unit EXCEPT ![c][r] =
                      Continue(u, Len(ledger[r]) + 1, AfterCreate(eta, rec, u.routeStatus))]
  /\ UNCHANGED <<routePlans, deliveries, cycle, req, ticks, requests, hostUp,
                 optimizerCalls, env, call>>

\* The unit after RealTimeUpdate.create rejected: the catch of lines 132-135
\* logs and rethrows, so lines 121-131 are not reached.
AfterCreateFailure_Swallow(u, r) ==
  [u EXCEPT !.pc = AfterCreate(UnitETA(u, r), UnitVerdict(u, r), u.routeStatus)]
AfterCreateFailure(u, r) == Settled(u, "rejected")

\* create rejects (validation or store error): lines 132-135 rethrow.
CreateFail(c, r) ==
  /\ unit[c][r].pc = "create"
  /\ MayFail("create") \/ ~SchemaAccepts(unit[c][r].trafficData)
  /\ unit' = [unit EXCEPT ![c][r] = AfterCreateFailure(unit[c][r], r)]
  /\ UNCHANGED <<routePlans, deliveries, ledger, cycle, req, ticks, requests, hostUp,
                 optimizerCalls, env, call>>

\* line 123: findByIdAndUpdate(route._id, {status: 'delayed'}) returns.
StatusUpdateOk(c, r) ==
  /\ unit[c][r].pc = "statusUpdate"
  /\ LET u == unit[c][r]
         update == ledger[r][u.update]
     IN unit' = [unit EXCEPT ![c][r] =
                   Continue([u EXCEPT !.wroteDelayed = TRUE], u.update,
                            AfterStatusUpdate(update.updatedETA,
                               [suggested |-> update.recalculationSuggested]))]
  /\ routePlans' = [routePlans EXCEPT ![r].status = "delayed"]
  /\ UNCHANGED <<deliveries, ledger, cycle, req, ticks, requests, hostUp,
                 optimizerCalls, env, call>>

\* The update document of triggerNotification, lines 280-283.
MarkNotified_Overwrite(update) ==
  [update EXCEPT !.notificationSent = TRUE, !.recalculationSuggested = FALSE]
MarkNotified(update) == [update EXCEPT !.notificationSent = TRUE]

\* triggerNotification, lines 280-283: the snapshot is marked as notified.
NotifyOk(c, r) ==
  /\ unit[c][r].pc = "notify"
  /\ ledger' = [ledger EXCEPT ![r][unit[c][r].update] = MarkNotified(@)]
  /\ unit' = [unit EXCEPT ![c][r] = Settled(unit[c][r], "fulfilled")]
  /\ UNCHANGED <<routePlans, deliveries, cycle, req, ticks, requests, hostUp,
                 optimizerCalls, env, call>>

\* Either findByIdAndUpdate rejects: lines 132-135 rethrow, the unit rejects.
TailFail(c, r) ==
  /\ unit[c][r].pc \in {"statusUpdate", "notify"}
  /\ MayFail("update")
  /\ unit' = [unit EXCEPT ![c][r] = Settled(unit[c][r], "rejected")]
  /\ UNCHANGED <<routePlans, deliveries, ledger, cycle, req, ticks, requests, hostUp,
                 optimizerCalls, env, call>>

\* ------------------------------------- route.controller.js, start/complete
\* startRoute lines 350-362: findById returned, the status check passed,
\* route.status is set on the loaded document and save() is issued. (With
\* any other status the handler throws at line 357 and changes nothing.)
startRoute(q, r) ==
  /\ req[q].pc = "idle"
  /\ requests < MaxRequests
  /\ routePlans[r].status \in {"planned", "draft"}
  /\ req' = [req EXCEPT ![q] = [IdleReq EXCEPT !.op = "start", !.route = r, !.pc = "save"]]
  /\ requests' = requests + 1
  /\ UNCHANGED <<routePlans, deliveries, ledger, cycle, unit, ticks, hostUp,
                 optimizerCalls, env, call>>

\* completeRoute lines 383-395, likewise.
completeRoute(q, r) ==
  /\ req[q].pc = "idle"
  /\ requests < MaxRequests
  /\ routePlans[r].status = "in_progress"
  /\ req' = [req EXCEPT ![q] =
               [IdleReq EXCEPT !.op = "complete", !.route = r, !.pc = "save"]]
  /\ requests' = requests + 1
  /\ UNCHANGED <<routePlans, deliveries, ledger, cycle, unit, ticks, hostUp,
                 optimizerCalls, env, call>>

\* The status each handler assigns before save() (lines 360 and 393) and the
\* status its Delivery.updateMany writes (lines 367 and 400).
SavedStatus(op) == IF op = "start" THEN "in_progress" ELSE "completed"
DeliveryStatusFor(op) == IF op = "start" THEN "in_transit" ELSE "delivered"

\* save() returns: the document's modified path (status) is written, then
\* Delivery.updateMany is issued (lines 362-368, 395-401).
RouteSaved(q) ==
  /\ req[q].pc = "save"
  /\ routePlans' = [routePlans EXCEPT ![req[q].route].status = SavedStatus(req[q].op)]
  /\ req' = [req EXCEPT ![q].pc = "deliveries"]
  /\ UNCHANGED <<deliveries, ledger, cycle, unit, ticks, requests, hostUp,
                 optimizerCalls, env, call>>

\* updateMany returns and the response is sent.
DeliveriesUpdated(q) ==
  /\ req[q].pc = "deliveries"
  /\ deliveries' = [deliveries EXCEPT ![req[q].route] =
                      [i \in DOMAIN @ |-> DeliveryStatusFor(req[q].op)]]
  /\ req' = [req EXCEPT ![q] = Responded("ok")]
  /\ UNCHANGED <<routePlans, ledger, cycle, unit, ticks, requests, hostUp,
                 optimizerCalls, env, call>>

\* save() or updateMany rejects: asyncHandler passes the error on.
RequestFail(q) ==
  /\ req[q].pc \in {"save", "deliveries"}
  /\ MayFail("save")
  /\ req' = [req EXCEPT ![q] = Responded("error")]
  /\ UNCHANGED <<routePlans, deliveries, ledger, cycle, unit, ticks, requests, hostUp,
                 optimizerCalls, env, call>>

\* -------------------------------------------------- manual re-optimization
\* RealTimeUpdate.getLatestForRoute: the newest snapshot of the route.
HasUpdate(r) == Len(ledger[r]) > 0
LatestUpdate(r) == ledger[r][Len(ledger[r])]

\* aiRoute.service.js reoptimizeRoute, lines 273-288: some delivery of the
\* loaded route remains and the latest conditions changed significantly.
ReoptimizationNeeded_AnyDelay(remaining, r) ==
  /\ remaining
  /\ HasUpdate(r)
  /\ LatestUpdate(r).trafficData.present
  /\ LatestUpdate(r).trafficData.delayMinutes > 0
ReoptimizationNeeded(remaining, r) ==
  /\ remaining
  /\ HasUpdate(r)
  /\ LET trafficUpdate == LatestUpdate(r).trafficData
         weatherUpdate == LatestUpdate(r).weatherData
     IN \/ trafficUpdate.present /\ trafficUpdate.delayMinutes > 15
        \/ weatherUpdate.present /\ weatherUpdate.condition \in {"storm", "hail"}
        \/ trafficUpdate.present
           /\ \E i \in trafficUpdate.incidents : i.severity = "severe"

TotalOptimizerCalls == optimizerCalls["r1"] + optimizerCalls["r2"]

\* triggerReoptimization, service lines 292-299: findById().populate returned
\* the route with its deliveries and getLatestUpdate is issued.
triggerReoptimization(q, r) ==
  /\ req[q].pc = "idle"
  /\ requests < MaxRequests
  /\ TotalOptimizerCalls < MaxOptimizerCalls
  /\ req' = [req EXCEPT ![q] =
               [IdleReq EXCEPT !.op = "reoptimize", !.route = r, !.pc = "latest",
                  !.remaining = \E i \in DOMAIN deliveries[r] : deliveries[r][i] # "delivered"]]
  /\ requests' = requests + 1
  /\ UNCHANGED <<routePlans, deliveries, ledger, cycle, unit, ticks, hostUp,
                 optimizerCalls, env, call>>

\* getLatestUpdate returns and reoptimizeRoute runs to its return or to the
\* await of optimizeRoute (service 299-310, aiRoute 271-300).
LatestReturn(q) ==
  /\ req[q].pc = "latest"
  /\ IF ReoptimizationNeeded(req[q].remaining, req[q].route)
     THEN /\ optimizerCalls' = [optimizerCalls EXCEPT ![req[q].route] = @ + 1]
          /\ req' = [req EXCEPT ![q].pc = "optimize"]
     ELSE /\ req' = [req EXCEPT ![q] = Responded("not_needed")]
          /\ UNCHANGED optimizerCalls
  /\ UNCHANGED <<routePlans, deliveries, ledger, cycle, unit, ticks, requests,
                 hostUp, env, call>>

\* The RoutePlan collection after reoptimizeRoute returned its result: the
\* new route is handed to the caller only (aiRoute 302-309, service 310).
StoreAfterReoptimize_Applied(docs, r) ==
  [docs EXCEPT ![r].route = <<>>, ![r].totalDuration = 0]
StoreAfterReoptimize(docs, r) == docs

\* optimizeRoute resolves (it catches every error of the provider call) and
\* the result is returned with reoptimizationNeeded: true (aiRoute 302-309).
OptimizerReturn(q) ==
  /\ req[q].pc = "optimize"
  /\ req' = [req EXCEPT ![q] = Responded("reoptimized")]
  /\ routePlans' = StoreAfterReoptimize(routePlans, req[q].route)
  /\ UNCHANGED <<deliveries, ledger, cycle, unit, ticks, requests,
                 hostUp, optimizerCalls, env, call>>

\* ------------------------------------------------------------ specification
Next ==
  \/ TimerTick
  \/ \E c \in Cycles : QueryReturn(c) \/ QueryFail(c) \/ Aggregate(c)
  \/ \E c \in Cycles, r \in Routes :
       \/ TrafficReturn(c, r)
       \/ WeatherReturn(c, r)
       \/ CreateOk(c, r)
       \/ CreateFail(c, r)
       \/ StatusUpdateOk(c, r)
       \/ NotifyOk(c, r)
       \/ TailFail(c, r)
  \/ \E q \in Reqs, r \in Routes : startRoute(q, r) \/ completeRoute(q, r)
  \/ \E q \in Reqs : RouteSaved(q) \/ DeliveriesUpdated(q) \/ RequestFail(q)
  \/ \E q \in Reqs, r \in Routes : triggerReoptimization(q, r)
  \/ \E q \in Reqs : LatestReturn(q) \/ OptimizerReturn(q)

Spec == Init /\ [][Next]_vars

\* --------------------------------------------- optimizeRoute, called directly
\* No scan and no request runs beside the call.
InitQuiet ==
  /\ InitCommon(MaxTicks)
  /\ routePlans = [r \in Routes |-> Doc("completed", FALSE, 60, << <<1, 1>> >>)]
  /\ env = [traffic |-> {}, incidents |-> {}, weather |-> {}, faults |-> {}]

StopLongitudes == {1, 3}
StartLongitudes == {0, 2}
Stops == [priority : {"urgent", "high", "normal", "low"},
          coordinates : {<<lon, 0>> : lon \in StopLongitudes}]
SeqsUpTo(S, n) == UNION {[1..k -> S] : k \in 0..n}

\* What the provider can answer: content that is not JSON, JSON without a
\* sequence array, or JSON with a sequence of integers.
AIResponses(n) ==
  {[kind |-> k, hasSequence |-> FALSE, sequence |-> <<>>, timeWindows |-> FALSE,
    reasoningLength |-> 0, totalDistance |-> 0] : k \in {"malformed", "json"}}
  \cup {[kind |-> "json", hasSequence |-> TRUE, sequence |-> sq, timeWindows |-> FALSE,
         reasoningLength |-> 30, totalDistance |-> 12] : sq \in SeqsUpTo(0..n, n)}
NoResponse ==
  [kind |-> "none", hasSequence |-> FALSE, sequence |-> <<>>, timeWindows |-> FALSE,
   reasoningLength |-> 0, totalDistance |-> 0]

\* optimizeRoute lines 19-61: the prompt is built and axios.post is issued.
\* Both callers hand over at least one delivery (controller line 205,
\* reoptimizeRoute line 277).
optimizeRoute(stops, startLocation) ==
  /\ call.pc = "idle"
  /\ call' = [pc |-> "awaiting", deliveries |-> stops,
               startLocation |-> startLocation, response |-> NoResponse,
               result |-> Surfaced]
  /\ UNCHANGED <<routePlans, deliveries, ledger, cycle, unit, req, ticks, requests,
                 hostUp, optimizerCalls, env>>

\* axios.post resolves: lines 63-72, or the catch when parsing throws.
ProviderReturn(aiResponse) ==
  /\ call.pc = "awaiting"
  /\ call' = [call EXCEPT !.pc = "done", !.response = aiResponse,
                 !.result = optimizeRouteResult(aiResponse, call.deliveries,
                                                call.startLocation)]
  /\ UNCHANGED <<routePlans, deliveries, ledger, cycle, unit, req, ticks, requests,
                 hostUp, optimizerCalls, env>>

\* axios.post rejects (timeout after 60 s, or a provider error): the catch.
ProviderFail(kind) ==
  /\ call.pc = "awaiting"
  /\ call' = [call EXCEPT !.pc = "done", !.response = [NoResponse EXCEPT !.kind = kind],
                 !.result = OnPrimaryFailure(call.deliveries, call.startLocation)]
  /\ UNCHANGED <<routePlans, deliveries, ledger, cycle, unit, req, ticks, requests,
                 hostUp, optimizerCalls, env>>

\* The answers the provider can give to the call in flight.
PendingResponses ==
  IF call.pc = "awaiting" THEN AIResponses(Len(call.deliveries)) ELSE {}

NextOptimizer ==
  \/ \E stops \in SeqsUpTo(Stops, MaxStops) \ {<<>>}, lon \in StartLongitudes :
       optimizeRoute(stops, <<lon, 0>>)
  \/ \E aiResponse \in PendingResponses : ProviderReturn(aiResponse)
  \/ \E kind \in {"timeout", "provider_error"} : ProviderFail(kind)

SpecOptimizer == InitQuiet /\ [][NextOptimizer]_vars

\* ----------------------------------------- shouldRecalculate, called directly
\* The arguments updateRouteData can pass: trafficData as built at lines
\* 72-80 or null, weatherData as built at lines 92-97 or null, and the ETA
\* calculateUpdatedETA derives from that trafficData.
DecideTraffic ==
  {NullTraffic} \cup
  {[present |-> TRUE, currentSpeed |-> 40, freeFlowSpeed |-> 60, congestionLevel |-> lv,
    congestionPercentage |-> 33, delayMinutes |-> dm, incidents |-> inc] :
     lv \in {"free", "heavy", "severe"}, dm \in {-15, 0, 30, 31, 45},
     inc \in UnitIncidents}
DecideWeather ==
  {NullWeather} \cup
  {WeatherReading(cond, vis, al) :
     cond \in {"clear", "fog", "heavy_rain", "storm", "hail"},
     vis \in {0, 500, 999, 1000}, al \in SUBSET {"medium", "high"}}

Recalculate(trafficData, weatherData) ==
  /\ call.pc = "idle"
  /\ LET updatedETA == calculateUpdatedETA(600, trafficData)
     IN call' = [pc |-> "decided", trafficData |-> trafficData,
                 weatherData |-> weatherData, updatedETA |-> updatedETA,
                 result |-> shouldRecalculate(trafficData, weatherData, updatedETA)]
  /\ UNCHANGED <<routePlans, deliveries, ledger, cycle, unit, req, ticks, requests,
                 hostUp, optimizerCalls, env>>

NextDecide ==
  \E trafficData \in DecideTraffic, weatherData \in DecideWeather :
     Recalculate(trafficData, weatherData)

SpecDecide == InitQuiet /\ [][NextDecide]_vars

\* --------------------------------------- the sampling helpers, called directly
\* A path of n distinct points, in order.
Path(n) == [i \in 1..n |-> <<i, i>>]

SampleTraffic(coordinates, maxPoints) ==
  /\ call.pc = "idle"
  /\ call' = [pc |-> "sampled", provider |-> "tomtom", coordinates |-> coordinates,
               maxPoints |-> maxPoints,
               result |-> sampleRoutePoints(coordinates, maxPoints)]
  /\ UNCHANGED <<routePlans, deliveries, ledger, cycle, unit, req, ticks, requests,
                 hostUp, optimizerCalls, env>>

SampleWeather(coordinates, maxPoints) ==
  /\ call.pc = "idle"
  /\ call' = [pc |-> "sampled", provider |-> "weather", coordinates |-> coordinates,
               maxPoints |-> maxPoints,
               result |-> samplePoints(coordinates, maxPoints)]
  /\ UNCHANGED <<routePlans, deliveries, ledger, cycle, unit, req, ticks, requests,
                 hostUp, optimizerCalls, env>>

NextSample ==
  \E n \in 0..MaxPathLen, maxPoints \in 1..MaxSampleCount :
     SampleTraffic(Path(n), maxPoints) \/ SampleWeather(Path(n), maxPoints)

SpecSample == InitQuiet /\ [][NextSample]_vars

\* ----------------------------- the providers' classifiers, called directly
\* Speeds in km/h as TomTom reports them; 0 also stands for a missing speed.
Speeds == 0..MaxSpeed
\* WMO codes run from 0 to 99.
WeatherCodes == {NoCode} \cup {Code(n) : n \in 0..MaxWeatherCode}

ClassifyCongestion(currentSpeed, freeFlowSpeed) ==
  /\ call.pc = "idle"
  /\ call' = [pc |-> "classified", currentSpeed |-> currentSpeed,
               freeFlowSpeed |-> freeFlowSpeed,
               result |-> calculateCongestionLevel(currentSpeed, freeFlowSpeed)]
  /\ UNCHANGED <<routePlans, deliveries, ledger, cycle, unit, req, ticks, requests,
                 hostUp, optimizerCalls, env>>

MapCode(code) ==
  /\ call.pc = "idle"
  /\ call' = [pc |-> "mapped", code |-> code, result |-> mapWeatherCode(code)]
  /\ UNCHANGED <<routePlans, deliveries, ledger, cycle, unit, req, ticks, requests,
                 hostUp, optimizerCalls, env>>

NextClassify ==
  \/ \E currentSpeed \in Speeds, freeFlowSpeed \in Speeds :
       ClassifyCongestion(currentSpeed, freeFlowSpeed)
  \/ \E code \in WeatherCodes : MapCode(code)

SpecClassify == InitQuiet /\ [][NextClassify]_vars

\* ------------------------------------- fallbackOptimization, called directly
NoEnd == [defined |-> FALSE, coordinates |-> <<0, 0>>]
EndLocations == {NoEnd, [defined |-> TRUE, coordinates |-> <<2, 0>>]}

\* The whole of fallbackOptimization, lines 166-226.
FallbackResult(stops, startLocation, endLocation) ==
  LET result == fallbackOptimization(stops, startLocation)
  IN [success |-> result.success,
      sequence |-> result.sequence,
      deliveries |-> optimizedDeliveries(stops, result.sequence),
      estimatedMetrics |-> estimatedMetrics(stops, startLocation, endLocation,
                                            result.sequence),
      warnings |-> result.warnings,
      aiModel |-> result.aiModel,
      confidence |-> result.confidence]

\* A caller runs the fallback on its array of deliveries ...
FallbackCall(stops, startLocation, endLocation) ==
  /\ call.pc = "idle"
  /\ call' = [pc |-> "ran", input |-> stops, deliveries |-> CallerArrayAfter(stops),
               startLocation |-> startLocation, endLocation |-> endLocation,
               first |-> FallbackResult(stops, startLocation, endLocation),
               second |-> Surfaced]
  /\ UNCHANGED <<routePlans, deliveries, ledger, cycle, unit, req, ticks, requests,
                 hostUp, optimizerCalls, env>>

\* ... and runs it once more on the same array and locations.
FallbackRepeat ==
  /\ call.pc = "ran"
  /\ call' = [call EXCEPT !.pc = "ran_twice",
                 !.deliveries = CallerArrayAfter(call.deliveries),
                 !.second = FallbackResult(call.deliveries, call.startLocation,
                                           call.endLocation)]
  /\ UNCHANGED <<routePlans, deliveries, ledger, cycle, unit, req, ticks, requests,
                 hostUp, optimizerCalls, env>>

NextFallback ==
  \/ \E stops \in SeqsUpTo(Stops, MaxFallbackStops) \ {<<>>}, lon \in StartLongitudes,
        endLocation \in EndLocations :
       FallbackCall(stops, <<lon, 0>>, endLocation)
  \/ FallbackRepeat

SpecFallback == InitQuiet /\ [][NextFallback]_vars
SpecFleet == InitFleet /\ [][Next]_vars
SpecUnit == InitUnit /\ [][Next]_vars

\* Every external call eventually returns or fails (each carries a timeout:
\* TomTom and Open-Meteo 10 s, the store its own), and the event loop runs
\* every continuation that is ready.
QueryStep(c) == QueryReturn(c) \/ QueryFail(c)
UnitStep(c, r) ==
  \/ TrafficReturn(c, r)
  \/ WeatherReturn(c, r)
  \/ CreateOk(c, r)
  \/ CreateFail(c, r)
  \/ StatusUpdateOk(c, r)
  \/ NotifyOk(c, r)
  \/ TailFail(c, r)
CallsComplete ==
  /\ \A c \in Cycles : WF_vars(QueryStep(c)) /\ WF_vars(Aggregate(c))
  /\ \A c \in Cycles, r \in Routes : WF_vars(UnitStep(c, r))
SpecFleetLive == InitFleet /\ [][Next]_vars /\ CallsComplete

\* ------------------------------------------------------------------ claims
Running == {c \in Cycles : cycle[c].state \in {"scanning", "fanout"}}
UnitIds == Cycles \X Routes
\* The snapshots the unit of cycle c appended for route r.
SnapshotsOf(c, r) == {i \in DOMAIN ledger[r] : ledger[r][i].cycle = c}
Persisted(c, r) == SnapshotsOf(c, r) # {}
SnapshotOf(c, r) == ledger[r][CHOOSE i \in SnapshotsOf(c, r) : TRUE]

\* C1: at most one scan cycle is running at any time; a tick that fires
\* while an earlier cycle has not finished starts no second cycle.
C1_AtMostOneCycle == Cardinality(Running) <= 1

\* C2: when a cycle returns, every selected route's unit has settled with
\* one outcome, and successful + failed is the number of selected routes.
C2_EveryUnitSettles ==
  \A c \in Cycles : cycle[c].state = "done" =>
    /\ \A r \in cycle[c].selected : unit[c][r].pc \in {"fulfilled", "rejected"}
    /\ cycle[c].total = Cardinality(cycle[c].selected)
    /\ cycle[c].successful + cycle[c].failed = cycle[c].total
C2_Witness ==
  \E c \in Cycles : cycle[c].state = "done" /\ cycle[c].successful = 1
                    /\ cycle[c].failed = 1

\* C3: a route's status never moves backwards along
\* draft/planned -> in_progress -> completed, and a completed or cancelled
\* route is never changed to delayed.
StatusRank(st) ==
  IF st \in {"draft", "planned"} THEN 1 ELSE IF st = "in_progress" THEN 2 ELSE 3
C3_StatusMonotonic ==
  [][\A r \in Routes :
       LET a == routePlans[r].status
           b == routePlans'[r].status
       IN /\ (a \in {"completed", "cancelled"} => b # "delayed")
          /\ ({a, b} \subseteq {"draft", "planned", "in_progress", "completed"}
                => StatusRank(a) <= StatusRank(b))]_vars

C5_FailedMeansNotRecorded ==
  \A id \in UnitIds : unit[id[1]][id[2]].pc = "rejected" => ~Persisted(id[1], id[2])

\* C6: the driver survives every cycle outcome: the host stays up and the
\* next tick can start a new cycle.
C6_DriverSurvives == hostUp /\ (ticks < MaxTicks => ENABLED TimerTick)
C6_Witness ==
  \E c \in Cycles : c + 1 \in Cycles /\ cycle[c].state = "failed"
                    /\ cycle[c + 1].state = "fanout"

\* C7: within a unit the weather request is in flight while the traffic
\* fetch is in flight.
C7_FetchesConcurrent ==
  \A id \in UnitIds :
    TrafficInFlight(unit[id[1]][id[2]]) => WeatherInFlight(unit[id[1]][id[2]])

\* C8: a unit whose verdict suggests recalculation has the optimizer
\* invoked for its route.
C8_OptimizerInvoked ==
  \A id \in UnitIds :
    (/\ unit[id[1]][id[2]].pc = "fulfilled"
     /\ Persisted(id[1], id[2])
     /\ SnapshotOf(id[1], id[2]).recalculationSuggested)
    => optimizerCalls[id[2]] >= 1

\* C9: a unit writes status 'delayed' only when its delayMinutes is above 30
\* and its copy of the route is not delayed, and a unit that ran to the end
\* wrote it if and only if its delayMinutes is above 30.
C9_DelayedIffOver30 ==
  \A id \in UnitIds :
    LET c == id[1]
        r == id[2]
        u == unit[c][r]
    IN /\ u.wroteDelayed =>
            Persisted(c, r) /\ SnapshotOf(c, r).updatedETA.delayMinutes > 30
       /\ u.pc = "statusUpdate" =>
            ledger[r][u.update].updatedETA.delayMinutes > 30 /\ u.routeStatus # "delayed"
       /\ u.pc \in {"notify", "fulfilled"} /\ Persisted(c, r) =>
            (u.wroteDelayed <=> SnapshotOf(c, r).updatedETA.delayMinutes > 30)
C9_Witness ==
  \E id \in UnitIds :
    /\ unit[id[1]][id[2]].pc = "fulfilled" /\ Persisted(id[1], id[2])
    /\ SnapshotOf(id[1], id[2]).updatedETA.delayMinutes = 30
    /\ SnapshotOf(id[1], id[2]).trafficData.congestionLevel = "severe"
    /\ SnapshotOf(id[1], id[2]).recalculationSuggested
    /\ ~unit[id[1]][id[2]].wroteDelayed
    /\ routePlans[id[2]].status # "delayed"

\* C10: a snapshot is marked as notified only if recalculation is suggested
\* or delayMinutes is above 15, and the snapshot of a unit that ran to the
\* end is marked if and only if that holds.
C10_NotifiedIffNeeded ==
  \A id \in UnitIds :
    LET c == id[1]
        r == id[2]
    IN Persisted(c, r) =>
         LET s == SnapshotOf(c, r)
             needed == s.recalculationSuggested \/ s.updatedETA.delayMinutes > 15
         IN /\ s.notificationSent => needed
            /\ unit[c][r].pc = "fulfilled" => (s.notificationSent <=> needed)
C10_Witness ==
  \E id \in UnitIds :
    /\ unit[id[1]][id[2]].pc = "fulfilled" /\ Persisted(id[1], id[2])
    /\ ~SnapshotOf(id[1], id[2]).recalculationSuggested
    /\ SnapshotOf(id[1], id[2]).updatedETA.delayMinutes \in 16..30
    /\ SnapshotOf(id[1], id[2]).notificationSent

\* C11: manual re-optimization calls the optimizer only if the snapshot it
\* read as the latest has a traffic delay above 15 minutes, or a weather
\* condition of storm or hail, or an incident of severity severe; with no
\* snapshot, with none of the three, or with every delivery of the loaded
\* route delivered, it answers that no re-optimization is needed and calls
\* no optimizer.
C11_Significant(r) ==
  /\ Len(ledger[r]) > 0
  /\ LET latest == ledger[r][Len(ledger[r])]
     IN \/ latest.trafficData.present /\ latest.trafficData.delayMinutes > 15
        \/ latest.weatherData.present /\ latest.weatherData.condition \in {"storm", "hail"}
        \/ latest.trafficData.present
           /\ \E i \in latest.trafficData.incidents : i.severity = "severe"
IsPermutation(sequence, n) ==
  /\ Len(sequence) = n
  /\ \A idx \in 0..(n - 1) : Cardinality({k \in DOMAIN sequence : sequence[k] = idx}) = 1
C12_OnlyPermutationsAccepted ==
  (call.pc = "done" /\ call.response.kind = "json") =>
     IF call.response.hasSequence
        /\ IsPermutation(call.response.sequence, Len(call.deliveries))
     THEN call.result.aiModel = "gpt-4.1-nano"
          /\ call.result.sequence = call.response.sequence
     ELSE call.result = fallbackOptimization(call.deliveries, call.startLocation)

\* C13: whenever the primary strategy failed (the request timed out or
\* rejected, the content did not parse, the sequence was missing or held an
\* index out of range), optimizeRoute returns the fallback result: produced
\* by the fallback method, confidence 0.6, with the warning that the AI
\* service was unavailable; nothing is surfaced to the caller.
C13_PrimaryFailed ==
  \/ call.response.kind \in {"timeout", "provider_error", "malformed"}
  \/ ~call.response.hasSequence
  \/ \E k \in DOMAIN call.response.sequence :
        call.response.sequence[k] \notin 0..(Len(call.deliveries) - 1)
PriorityRank(p) == CHOOSE k \in 1..4 : PriorityLevels[k] = p
C14_PriorityOrder ==
  (call.pc = "done" /\ call.result.aiModel = "fallback-nearest-neighbor") =>
     LET sq == call.result.sequence
         prio(k) == call.deliveries[sq[k] + 1].priority
     IN /\ IsPermutation(sq, Len(call.deliveries))
        /\ \A i, j \in DOMAIN sq :
              PriorityRank(prio(i)) < PriorityRank(prio(j)) => i < j
C14_Witness ==
  /\ call.pc = "done" /\ call.result.aiModel = "fallback-nearest-neighbor"
  /\ call.startLocation = <<0, 0>>
  /\ call.deliveries = <<[priority |-> "low", coordinates |-> <<1, 0>>],
                         [priority |-> "urgent", coordinates |-> <<3, 0>>]>>
  /\ call.result.sequence = <<1, 0>>

\* C15: shouldRecalculate applies six independent rules (severe congestion;
\* a closure incident; delayMinutes above 30; weather storm, hail or
\* heavy_rain; visibility present and below 1 km; an alert of severity
\* high): suggested holds exactly when a rule matches, the reasons are those
\* of the matching rules in rule order, and with no traffic, no weather and
\* delay 0 nothing is suggested and there is no reason.
C15_Expected(t, w, eta) ==
  (IF t.present /\ t.congestionLevel = "severe"
     THEN <<"Severe traffic congestion detected">> ELSE <<>>)
  \o (IF t.present /\ \E i \in t.incidents : i.type = "closure"
        THEN <<"Road closure on route">> ELSE <<>>)
  \o (IF eta.delayMinutes > 30 THEN <<"Significant delay">> ELSE <<>>)
  \o (IF w.present /\ w.condition \in {"storm", "hail", "heavy_rain"}
        THEN <<"Severe weather">> ELSE <<>>)
  \o (IF w.present /\ w.visibilityM > 0 /\ w.visibilityM < 1000
        THEN <<"Very low visibility">> ELSE <<>>)
  \o (IF w.present /\ "high" \in w.alerts THEN <<"Severe weather alerts">> ELSE <<>>)
C16_Coordinates(doc) ==
  IF Len(doc.routeGeometry.coordinates) > 0 THEN doc.routeGeometry.coordinates
  ELSE doc.route
C16_SkippedOnlyWithoutCoordinates ==
  [][\A id \in UnitIds :
       LET c == id[1]
           r == id[2]
       IN (cycle[c].state = "scanning" /\ cycle'[c].state = "fanout"
           /\ r \in cycle'[c].selected)
          => /\ unit'[c][r].pc = "traffic" <=> Len(C16_Coordinates(routePlans[r])) > 0
             /\ unit'[c][r].pc # "traffic" =>
                  /\ unit'[c][r].pc = "fulfilled"
                  /\ ledger' = ledger /\ routePlans' = routePlans]_vars

\* C17: when every per-point flow request fails the traffic fetch returns an
\* 'unknown' congestion level with empty metrics, and the unit can still
\* persist its snapshot and complete as a success.
C17_UnknownTrafficRecorded ==
  /\ getTrafficAlongRoute(<<FailedReading>>) =
       [averageSpeed |-> 0, averageFreeFlowSpeed |-> 0, congestionLevel |-> "unknown"]
  /\ \A id \in UnitIds :
       LET u == unit[id[1]][id[2]]
       IN (u.pc = "create" /\ u.trafficData.present
           /\ u.trafficData.congestionLevel = "unknown" /\ u.trafficData.currentSpeed = 0)
          => ENABLED CreateOk(id[1], id[2])

\* C18: the units a cycle starts are exactly those of the routes that, when
\* the query returns, are planned or in_progress and scheduled in the
\* current day; a snapshot of a cycle belongs to a route that cycle selected.
C18_Eligible(doc) == doc.status \in {"planned", "in_progress"} /\ doc.scheduledToday
C19_SnapshotsImmutable ==
  [][\A r \in Routes :
       /\ Len(ledger'[r]) >= Len(ledger[r])
       /\ \A i \in DOMAIN ledger[r] :
            \/ ledger'[r][i] = ledger[r][i]
            \/ ledger'[r][i] = [ledger[r][i] EXCEPT !.notificationSent = TRUE]]_vars
C19_Witness ==
  /\ Len(ledger["r1"]) = 2
  /\ ledger["r1"][1].notificationSent
  /\ \E q \in Reqs : req[q].response = "reoptimized" /\ req[q].route = "r1"

\* C20: both sampling helpers return their input unchanged when it has at
\* most maxPoints points; for a longer input and maxPoints >= 1 they return
\* exactly maxPoints points, each a point of the input, in the input's order.
C20_SampleExact ==
  call.pc = "sampled" =>
    LET n == Len(call.coordinates)
        res == call.result
    IN /\ n <= call.maxPoints => res = call.coordinates
       /\ n > call.maxPoints =>
            /\ Len(res) = call.maxPoints
            /\ \A k \in DOMAIN res : res[k][1] \in 1..n /\ res[k] = call.coordinates[res[k][1]]
            /\ \A k \in 1..(Len(res) - 1) : res[k][1] < res[k + 1][1]
C20_Witness ==
  /\ call.pc = "sampled" /\ call.provider = "weather"
  /\ Len(call.coordinates) = 11 /\ call.maxPoints = 5
  /\ call.result = << <<1, 1>>, <<3, 3>>, <<5, 5>>, <<7, 7>>, <<9, 9>> >>

C22_Level(cur, ff) ==
  CASE cur = 0 \/ ff = 0 -> "unknown"
    [] cur # 0 /\ ff # 0 /\ 10 * cur >= 9 * ff -> "free"
    [] cur # 0 /\ ff # 0 /\ 10 * cur < 9 * ff /\ 10 * cur >= 7 * ff -> "light"
    [] cur # 0 /\ ff # 0 /\ 10 * cur < 7 * ff /\ 10 * cur >= 5 * ff -> "moderate"
    [] cur # 0 /\ ff # 0 /\ 10 * cur < 5 * ff /\ 10 * cur >= 3 * ff -> "heavy"
    [] cur # 0 /\ ff # 0 /\ 10 * cur < 3 * ff -> "severe"
C22_CongestionThresholds ==
  call.pc = "classified" =>
    /\ call.result = C22_Level(call.currentSpeed, call.freeFlowSpeed)
    /\ (call.freeFlowSpeed = 100 /\ call.currentSpeed = 90 => call.result = "free")
    /\ (call.freeFlowSpeed = 100 /\ call.currentSpeed = 75 => call.result = "light")
    /\ (call.freeFlowSpeed = 100 /\ call.currentSpeed = 50 => call.result = "moderate")
    /\ (call.freeFlowSpeed = 100 /\ call.currentSpeed = 30 => call.result = "heavy")
    /\ (call.freeFlowSpeed = 100 /\ call.currentSpeed = 20 => call.result = "severe")
C22_Witness ==
  /\ call.pc = "classified"
  /\ call.currentSpeed = 30
  /\ call.freeFlowSpeed = 100
  /\ call.result = "heavy"

\* C23: every weather code maps to one of the conditions a snapshot can
\* store, with 0 -> clear, 1-3 -> cloudy, 45-48 -> fog, 61-64 -> rain,
\* 65 -> heavy_rain, 95 -> storm and 96-99 -> hail.
C23_CodeMapped ==
  call.pc = "mapped" =>
    /\ call.result \in ConditionEnum
    /\ (call.code.present =>
          LET n == call.code.value
          IN /\ (n = 0 => call.result = "clear")
             /\ (n \in 1..3 => call.result = "cloudy")
             /\ (n \in 45..48 => call.result = "fog")
             /\ (n \in 61..64 => call.result = "rain")
             /\ (n = 65 => call.result = "heavy_rain")
             /\ (n = 95 => call.result = "storm")
             /\ (n \in 96..99 => call.result = "hail"))
C23_Witness ==
  /\ call.pc = "mapped"
  /\ call.code = Code(65)
  /\ call.result = "heavy_rain"


\* C24: every stop the fallback appends is, among the stops of its priority
\* bucket not yet in the sequence, one at the least distance from the
\* current position, and the earliest of the input among those at that
\* distance; the current position is the start location at first and the
\* stop appended last afterwards, across buckets too.
C24_PositionBefore(k) ==
  IF k = 1 THEN call.startLocation
  ELSE call.input[call.first.sequence[k - 1] + 1].coordinates
C24_Candidates(k) ==
  {j \in 0..(Len(call.input) - 1) :
     /\ \A m \in 1..(k - 1) : call.first.sequence[m] # j
     /\ call.input[j + 1].priority = call.input[call.first.sequence[k] + 1].priority}
C24_NearestInBucket ==
  call.pc \in {"ran", "ran_twice"} =>
    \A k \in DOMAIN call.first.sequence :
      LET chosen == call.first.sequence[k]
          here == C24_PositionBefore(k)
          away(j) == calculateDistance(here, call.input[j + 1].coordinates)
      IN /\ chosen \in C24_Candidates(k)
         /\ \A j \in C24_Candidates(k) :
               /\ away(chosen) <= away(j)
               /\ (away(chosen) = away(j) => chosen <= j)
C24_Witness ==
  /\ call.pc = "ran"
  /\ call.startLocation = <<0, 0>>
  /\ Len(call.input) = 3
  /\ call.input[1] = [priority |-> "normal", coordinates |-> <<1, 0>>]
  /\ call.input[2] = [priority |-> "normal", coordinates |-> <<3, 0>>]
  /\ call.input[3] = [priority |-> "urgent", coordinates |-> <<3, 0>>]
  /\ call.first.sequence = <<2, 1, 0>>

C26_AlwaysAggregates ==
  \A c \in Cycles : (cycle[c].state = "scanning") ~> (cycle[c].state = "done")
\* C26: when every external call eventually returns or fails, every scan
\* cycle that starts eventually ends: with its summary once the query has
\* answered, or with the query's error when the query failed; the summary is
\* computed only when every unit has settled.
C26_CycleTerminates ==
  /\ \A c \in Cycles :
        (cycle[c].state = "scanning") ~> (cycle[c].state \in {"done", "failed"})
  /\ \A c \in Cycles : (cycle[c].state = "fanout") ~> (cycle[c].state = "done")
  /\ [][\A c \in Cycles :
          (cycle[c].state # "done" /\ cycle'[c].state = "done") =>
             \A r \in cycle[c].selected : unit[c][r].pc \in {"fulfilled", "rejected"}]_vars
C26_Witness ==
  \E c \in Cycles :
    /\ cycle[c].state = "done"
    /\ cycle[c].total = 2
    /\ cycle[c].failed >= 1


\* C27: a unit issues the status change and the notification only with its
\* snapshot in the ledger; a unit whose create failed leaves the route's
\* status and the ledger as they were, has written no status and issues
\* nothing further.
C27_SnapshotFirst ==
  /\ [](\A id \in UnitIds :
          LET c == id[1]
              r == id[2]
              u == unit[c][r]
          IN /\ u.pc \in {"statusUpdate", "notify"} => u.update \in SnapshotsOf(c, r)
             /\ u.wroteDelayed => Persisted(c, r)
             /\ (u.pc = "rejected" /\ ~Persisted(c, r)) => ~u.wroteDelayed)
  /\ [][\A id \in UnitIds :
          LET c == id[1]
              r == id[2]
          IN (unit[c][r].pc = "create" /\ unit'[c][r].pc # "create"
                /\ ~Persisted(c, r)') =>
               /\ unit'[c][r].pc = "rejected"
               /\ routePlans' = routePlans
               /\ ledger' = ledger]_vars
C27_Witness ==
  \E id \in UnitIds :
    /\ unit[id[1]][id[2]].pc = "rejected"
    /\ ~Persisted(id[1], id[2])
    /\ ~unit[id[1]][id[2]].wroteDelayed
    /\ routePlans[id[2]].status \in {"planned", "in_progress"}
    /\ ledger[id[2]] = <<>>


\* C28: once a route's status is 'delayed', no step of the scan or of
\* startRoute/completeRoute changes that status, and none appends a snapshot
\* for the route.
C28_DelayedIsFinal ==
  [][\A r \in Routes :
       routePlans[r].status = "delayed" =>
         /\ routePlans'[r].status = "delayed"
         /\ Len(ledger'[r]) = Len(ledger[r])]_vars


\* C29: no step of triggerReoptimization, with or without an optimizer
\* call, changes a route document (status, stops, geometry, metrics), a
\* delivery's status or the ledger.
C29_HandlerStep ==
  \E q \in Reqs :
    /\ req'[q] # req[q]
    /\ \/ req[q].op = "reoptimize" /\ req[q].pc \in {"latest", "optimize"}
       \/ req'[q].op = "reoptimize" /\ req'[q].pc = "latest"
C29_ReoptimizationReadsOnly ==
  [][C29_HandlerStep =>
       /\ routePlans' = routePlans
       /\ deliveries' = deliveries
       /\ ledger' = ledger]_vars
C29_Witness ==
  \E q \in Reqs :
    /\ req[q].response = "reoptimized"
    /\ optimizerCalls[req[q].route] = 1
    /\ HasUpdate(req[q].route)


\* C30: no snapshot records a negative delay: its traffic delayMinutes and
\* its ETA's delayMinutes are at least 0 and its currentETA is not earlier
\* than its originalETA.
C30_DelayNeverNegative ==
  \A r \in Routes : \A i \in DOMAIN ledger[r] :
    LET s == ledger[r][i]
    IN /\ s.trafficData.present => s.trafficData.delayMinutes >= 0
       /\ s.updatedETA.delayMinutes >= 0
       /\ s.updatedETA.currentETA >= s.updatedETA.originalETA

====
